---------------------------- MODULE Spec2Model ----------------------------
(***************************************************************************)
(* Model of the guias-uniodonto repository:                                *)
(*   src/src/bot.py            capture side (Telegram bot): sanitization,  *)
(*                             currency formatting, file naming on confirm *)
(*   src/src/process_fotos.py  reconciliation side: filename decoding, row *)
(*                             search, upload, batch loop                  *)
(* Strings are sequences of one-character strings, so that the conversions *)
(* (sanitize, title, split, replace) are computed character by character.  *)
(***************************************************************************)
EXTENDS Integers, Sequences, FiniteSets, TLC

(***************************************************************************)
(* Characters                                                              *)
(***************************************************************************)
Lowers == <<"a", "b", "c", "d", "e", "f", "g", "h", "i", "j", "k", "l", "m", "n", "o", "p", "q", "r", "s", "t", "u", "v", "w", "x", "y", "z">>
Uppers == <<"A", "B", "C", "D", "E", "F", "G", "H", "I", "J", "K", "L", "M", "N", "O", "P", "Q", "R", "S", "T", "U", "V", "W", "X", "Y", "Z">>
DigitChars == <<"0", "1", "2", "3", "4", "5", "6", "7", "8", "9">>

Range(s) == {s[k] : k \in DOMAIN s}

LowerSet == Range(Lowers)
UpperSet == Range(Uppers)
DigitSet == Range(DigitChars)

IsLower(c) == c \in LowerSet
IsUpper(c) == c \in UpperSet
IsLetter(c) == IsLower(c) \/ IsUpper(c)
IsDigit(c) == c \in DigitSet
\* \w of a Python str pattern: letters, digits and the underscore
IsWordChar(c) == IsLetter(c) \/ IsDigit(c) \/ c = "_"
\* \s and str.strip(): whitespace
IsSpace(c) == c \in {" ", "\t"}

Upper(c) == IF IsLower(c) THEN Uppers[CHOOSE k \in DOMAIN Lowers : Lowers[k] = c] ELSE c
Lower(c) == IF IsUpper(c) THEN Lowers[CHOOSE k \in DOMAIN Uppers : Uppers[k] = c] ELSE c
DigitVal(c) == (CHOOSE k \in DOMAIN DigitChars : DigitChars[k] = c) - 1

Min(a, b) == IF a < b THEN a ELSE b

(***************************************************************************)
(* String helpers (Python str methods used by the code)                    *)
(***************************************************************************)
\* s[from:]
Drop(s, n) == SubSeq(s, n + 1, Len(s))
\* s[:n]
Take(s, n) == SubSeq(s, 1, Min(n, Len(s)))

RECURSIVE LStrip(_)
LStrip(s) == IF s # <<>> /\ IsSpace(Head(s)) THEN LStrip(Tail(s)) ELSE s

RECURSIVE RStrip(_)
RStrip(s) == IF s # <<>> /\ IsSpace(s[Len(s)]) THEN RStrip(Take(s, Len(s) - 1)) ELSE s

\* str.strip()
Strip(s) == RStrip(LStrip(s))

\* s.startswith(p)
StartsWith(s, p) == Len(p) <= Len(s) /\ SubSeq(s, 1, Len(p)) = p

\* p in s
RECURSIVE Contains(_, _)
Contains(s, p) ==
    IF Len(s) < Len(p) THEN FALSE
    ELSE IF StartsWith(s, p) THEN TRUE
    ELSE Contains(Tail(s), p)

\* s.replace(old, new): every non-overlapping occurrence, from the left
RECURSIVE Replace(_, _, _)
Replace(s, old, new) ==
    IF s = <<>> THEN <<>>
    ELSE IF StartsWith(s, old) THEN new \o Replace(Drop(s, Len(old)), old, new)
    ELSE <<Head(s)>> \o Replace(Tail(s), old, new)

\* s.split(sep): the parts between the non-overlapping occurrences of sep,
\* scanned from the left
RECURSIVE SplitFrom(_, _, _)
SplitFrom(s, sep, cur) ==
    IF s = <<>> THEN <<cur>>
    ELSE IF StartsWith(s, sep) THEN <<cur>> \o SplitFrom(Drop(s, Len(sep)), sep, <<>>)
    ELSE SplitFrom(Tail(s), sep, Append(cur, Head(s)))

Split(s, sep) == SplitFrom(s, sep, <<>>)

\* sep.join(parts)
RECURSIVE Join(_, _)
Join(parts, sep) ==
    IF parts = <<>> THEN <<>>
    ELSE IF Len(parts) = 1 THEN parts[1]
    ELSE parts[1] \o sep \o Join(Tail(parts), sep)

\* str.title(): a letter that follows a non-letter is upper-cased, every
\* other letter is lower-cased
RECURSIVE TitleFrom(_, _)
TitleFrom(s, afterLetter) ==
    IF s = <<>> THEN <<>>
    ELSE <<IF afterLetter THEN Lower(Head(s)) ELSE Upper(Head(s))>>
             \o TitleFrom(Tail(s), IsLetter(Head(s)))

Title(s) == TitleFrom(s, FALSE)

\* str.lower()
RECURSIVE LowerStr(_)
LowerStr(s) == IF s = <<>> THEN <<>> ELSE <<Lower(Head(s))>> \o LowerStr(Tail(s))

\* Path(name).suffix: from the last dot on, empty when there is no dot or the
\* only dot is the first character
RECURSIVE LastDot(_, _)
LastDot(s, k) == IF k = 0 THEN 0 ELSE IF s[k] = "." THEN k ELSE LastDot(s, k - 1)

Suffix(s) ==
    LET d == LastDot(s, Len(s))
    IN IF d <= 1 \/ d = Len(s) THEN <<>> ELSE SubSeq(s, d, Len(s))

(***************************************************************************)
(* bot.py: sanitize_filename_component                                     *)
(***************************************************************************)
MAX_COMPONENT_LEN == 80

\* a character class without the underscore ([^a-zA-Z0-9\s\-.,;])
KeepCharNoUnderscore(c) == IsLetter(c) \/ IsDigit(c) \/ IsSpace(c) \/ c \in {"-", ".", ",", ";"}

\* re.sub(r"[^\w\s\-.,;]", "", text): the characters that are kept
KeepChar(c) == IsWordChar(c) \/ IsSpace(c) \/ c \in {"-", ".", ",", ";"}

\* re.sub(r"\s+", "_", text): every maximal run of whitespace becomes one "_"
RECURSIVE CollapseSpaces(_)
CollapseSpaces(s) ==
    IF s = <<>> THEN <<>>
    ELSE IF IsSpace(Head(s)) THEN <<"_">> \o CollapseSpaces(LStrip(s))
    ELSE <<Head(s)>> \o CollapseSpaces(Tail(s))

sanitize_filename_component(text) ==
    IF text = <<>> THEN <<>>
    ELSE Take(CollapseSpaces(SelectSeq(Strip(text), KeepChar)), MAX_COMPONENT_LEN)

(***************************************************************************)
(* bot.py: parse_currency                                                  *)
(***************************************************************************)
\* re.sub(r"[^\d,.]", "", ...): the characters that are kept
CurrencyChar(c) == IsDigit(c) \/ c \in {",", "."}

AllDigits(s) == \A k \in DOMAIN s : IsDigit(s[k])

\* float(clean) succeeds on a string of digits, commas and dots iff it is
\* digits with at most one dot and at least one digit; else ValueError
IsFloatLiteral(s) ==
    LET parts == Split(s, <<".">>)
    IN /\ Len(parts) <= 2
       /\ \A k \in DOMAIN parts : AllDigits(parts[k])
       /\ \E k \in DOMAIN parts : parts[k] # <<>>

RECURSIVE DigitsToInt(_)
DigitsToInt(s) ==
    IF s = <<>> THEN 0
    ELSE 10 * DigitsToInt(Take(s, Len(s) - 1)) + DigitVal(s[Len(s)])

RECURSIVE IntToDigits(_)
IntToDigits(n) ==
    IF n < 10 THEN <<DigitChars[n + 1]>>
    ELSE IntToDigits(n \div 10) \o <<DigitChars[(n % 10) + 1]>>

\* The value of float(clean) rounded to hundredths, as the format spec .2f
\* rounds it.  Up to two fraction digits the value is exact.  With more, the
\* digits after the second decide; an exact decimal tie (5 followed by
\* zeros) is rounded half-to-even, which is what .2f prints when the tie is
\* exactly representable in binary (x.125, x.375, x.625, x.875).
CentsOf(clean) ==
    LET parts == Split(clean, <<".">>)
        intp  == parts[1]
        frac  == IF Len(parts) = 2 THEN parts[2] ELSE <<>>
        f2    == Take(frac \o <<"0", "0">>, 2)
        base  == 100 * DigitsToInt(intp) + DigitsToInt(f2)
        rest  == Drop(frac, 2)
        tailNonZero == \E k \in 2..Len(rest) : rest[k] # "0"
    IN IF rest = <<>> THEN base
       ELSE IF DigitVal(rest[1]) > 5 \/ (DigitVal(rest[1]) = 5 /\ tailNonZero) THEN base + 1
       ELSE IF DigitVal(rest[1]) < 5 THEN base
       ELSE IF base % 2 = 1 THEN base + 1 ELSE base

\* the integer digits with a comma between groups of three (format spec ",")
RECURSIVE GroupThousands(_)
GroupThousands(d) ==
    IF Len(d) <= 3 THEN d
    ELSE GroupThousands(Take(d, Len(d) - 3)) \o <<",">> \o Drop(d, Len(d) - 3)

\* f"{value:,.2f}"
FormatUS(cents) ==
    GroupThousands(IntToDigits(cents \div 100)) \o <<".">>
        \o <<DigitChars[((cents % 100) \div 10) + 1], DigitChars[(cents % 10) + 1]>>

ZeroAmount == <<"0", ",", "0", "0">>
TEMP == <<"T", "E", "M", "P">>

parse_currency(text) ==
    IF text = <<>> THEN ZeroAmount
    ELSE LET clean0 == SelectSeq(Strip(text), CurrencyChar)
             clean  == IF Contains(clean0, <<",">>) /\ Contains(clean0, <<".">>)
                           THEN Replace(Replace(clean0, <<".">>, <<>>), <<",">>, <<".">>)
                       ELSE IF Contains(clean0, <<",">>)
                           THEN Replace(clean0, <<",">>, <<".">>)
                       ELSE clean0
         IN IF clean0 = <<>> THEN ZeroAmount
            ELSE IF ~IsFloatLiteral(clean) THEN ZeroAmount
            ELSE Replace(Replace(Replace(FormatUS(CentsOf(clean)), <<",">>, TEMP),
                                 <<".">>, <<",">>), TEMP, <<".">>)

(***************************************************************************)
(* bot.py: the file name built by handle_confirmation                      *)
(***************************************************************************)
\* Python's None among strings
None == <<"<None>">>
\* a key the dictionary does not have: info.get(key) gives None for it
Missing == <<"<Missing>">>

\* "info.get(key) or default"
OrDefault(x, default) == IF x \in {None, Missing, <<>>} THEN default ELSE x

SEM_NOME  == <<"S", "E", "M", "_", "N", "O", "M", "E">>
SEM_SENHA == <<"S", "E", "M", "_", "S", "E", "N", "H", "A">>
SEM_DATA  == <<"S", "E", "M", "_", "D", "A", "T", "A">>
SEP == <<" ", "-", " ">>
GTO == <<"G", "T", "O">>
RX  == <<"R", "X">>

\* fname of handle_confirmation for user_data["extracted_info"] = info and a
\* temporary file whose suffix is ext
ConfirmFileName(info, ext) ==
    LET nome  == sanitize_filename_component(OrDefault(info.nome, SEM_NOME))
        senha == sanitize_filename_component(OrDefault(info.senha, SEM_SENHA))
        data  == sanitize_filename_component(OrDefault(info.data, SEM_DATA))
        preco_fmt == parse_currency(OrDefault(info.valor, ZeroAmount))
    IN nome \o SEP \o senha \o SEP \o data \o SEP \o preco_fmt \o SEP \o GTO \o LowerStr(ext)

(***************************************************************************)
(* bot.py: validate_extracted_data                                         *)
(***************************************************************************)
NULL_TEXT == <<"n", "u", "l", "l">>
MIN_NOME_LEN == 3

PROBLEM_NOME  == "Nome nao identificado ou invalido"
PROBLEM_SENHA == "Senha nao identificada"
PROBLEM_DATA  == "Data invalida ou ausente (esperado: DD/MM/AAAA)"
PROBLEM_VALOR == "Valor nao identificado"

\* info.get(key, ""): the default only replaces a key that is absent
GetOrEmpty(value) == IF value = Missing THEN <<>> ELSE value

\* re.match(r"\d{2}/\d{2}/\d{4}", data): the pattern at the start of the text
MatchesDatePrefix(t) ==
    /\ Len(t) >= 10
    /\ \A k \in {1, 2, 4, 5, 7, 8, 9, 10} : IsDigit(t[k])
    /\ t[3] = "/"
    /\ t[6] = "/"

\* the call raised AttributeError
ValidateRaised == [raised |-> TRUE, ok |-> FALSE, problems |-> <<>>]

\* the rules applied to the four texts once .strip() worked on each of them
ProblemsOf(nome, senha, data, valor) ==
    (IF nome = <<>> \/ nome = NULL_TEXT \/ Len(nome) < MIN_NOME_LEN THEN <<PROBLEM_NOME>> ELSE <<>>)
    \o (IF senha = <<>> \/ senha = NULL_TEXT THEN <<PROBLEM_SENHA>> ELSE <<>>)
    \o (IF ~MatchesDatePrefix(data) THEN <<PROBLEM_DATA>> ELSE <<>>)
    \o (IF valor = <<>> \/ valor = NULL_TEXT THEN <<PROBLEM_VALOR>> ELSE <<>>)

\* validate_extracted_data: None.strip() raises AttributeError; otherwise
\* (len(problems) == 0, problems)
validate_extracted_data(info) ==
    IF None \in {info.nome, info.senha, info.data, info.valor} THEN ValidateRaised
    ELSE [raised   |-> FALSE,
          ok       |-> ProblemsOf(Strip(GetOrEmpty(info.nome)), Strip(GetOrEmpty(info.senha)),
                                  Strip(GetOrEmpty(info.data)), Strip(GetOrEmpty(info.valor))) = <<>>,
          problems |-> ProblemsOf(Strip(GetOrEmpty(info.nome)), Strip(GetOrEmpty(info.senha)),
                                  Strip(GetOrEmpty(info.data)), Strip(GetOrEmpty(info.valor)))]

(***************************************************************************)
(* process_fotos.py: parse_filename                                        *)
(***************************************************************************)
MIN_PARTS == 3

\* ValueError("Formato de arquivo invalido") is raised
ParseRaises(file_name) == Len(Split(file_name, SEP)) < MIN_PARTS

\* (nome, data_site, anexo) of a file name that parses
parse_filename(file_name) ==
    LET parts == Split(file_name, SEP)
    IN [nome  |-> Title(Replace(parts[1], <<"_">>, <<" ">>)),
        data  |-> Replace(parts[2], <<"-">>, <<"/">>),
        anexo |-> Split(parts[3], <<".">>)[1]]

(***************************************************************************)
(* State                                                                   *)
(***************************************************************************)
VARIABLES
    mailbox,      \* process_fotos.py: the file names in FOTOS_DIR
    attachments,  \* the portal: for each ledger row, the slots that show an attachment
    pc,           \* process_all_files: "idle", "login", "navigate" or "loop"
    files,        \* process_all_files: the list built from the directory
    i,            \* process_all_files: loop index (0 until the loop is entered)
    successful,   \* process_all_files: counter
    failed,       \* process_all_files: counter
    runs,         \* number of calls of process_all_files so far
    endKind,      \* how the last call ended
    attempts,     \* per file of the directory: calls of process_file in this run
    okFiles,      \* files for which process_file returned True in this run
    everOk,       \* files for which process_file returned True in some run
    uploadCalls,  \* per file of the directory: requests.post calls made for it, over all runs
    last          \* the last process_file call: file, stage reached, row clicked

batchVars == <<mailbox, attachments, pc, files, i, successful, failed, runs,
               endKind, attempts, okFiles, everOk, uploadCalls, last>>

VARIABLES
    cstage,       \* "off", "input", "encoded", "decoded"
    cinfo,        \* bot.py: user_data["extracted_info"]
    cext,         \* bot.py: suffix of user_data["temp_photo_path"]
    cfname,       \* bot.py: fname written by handle_confirmation
    cdec          \* process_fotos.py: result of parse_filename(cfname)

codecVars == <<cstage, cinfo, cext, cfname, cdec>>

VARIABLES
    sstage,       \* "off", "input", "once", "twice"
    sIn,          \* argument of sanitize_filename_component
    sOut1,        \* sanitize_filename_component(sIn)
    sOut2         \* sanitize_filename_component(sOut1)

sanVars == <<sstage, sIn, sOut1, sOut2>>

VARIABLES
    pstage,       \* "off", "input", "done"
    pIn,          \* argument of parse_currency
    pOut          \* parse_currency(pIn)

curVars == <<pstage, pIn, pOut>>

VARIABLES
    vstage,       \* "off", "input", "done"
    vinfo,        \* argument of validate_extracted_data
    vres          \* what the call gave: raised, or (is_valid, problems)

valVars == <<vstage, vinfo, vres>>

VARIABLES
    conv,                    \* ConversationHandler: per chat, "END", "WAITING_PHOTO" or "WAITING_CONFIRMATION"
    pending_photo_file_id,   \* user_data has the key "pending_photo_file_id"
    temp_photo_path,         \* user_data["temp_photo_path"]; NoPath when the key is absent
    extracted_info,          \* user_data["extracted_info"]; NoInfo when the key is absent
    tmpFiles,                \* the temporary image files on disk
    downloads,               \* the files in DOWNLOAD_DIR
    photos,                  \* photos received so far (names the temporary files)
    reply,                   \* the last message sent, and the chat it went to
    lastEvent                \* the last update handled and what the environment did

botVars == <<conv, pending_photo_file_id, temp_photo_path, extracted_info, tmpFiles,
             downloads, photos, reply, lastEvent>>

VARIABLES
    mstage,       \* "off", "input", "done"
    mRows,        \* the portal: the rows of the listing, in document order
    mShown,       \* the portal: how many of them are in the page
    mQuery,       \* the record looked for: name, date and amount
    mRes          \* what find_and_click_user did: scroll attempts, rows in the page, row clicked

matchVars == <<mstage, mRows, mShown, mQuery, mRes>>

VARIABLES
    xstage,       \* "off", "input", "done"
    xAnswer,      \* what the API call gave: an exception, text that is no JSON, or a JSON object
    xInfo         \* extract_guia_info(image_path)

extVars == <<xstage, xAnswer, xInfo>>

vars == <<batchVars, codecVars, sanVars, curVars, valVars, botVars, matchVars, extVars>>

(***************************************************************************)
(* Bounds and inputs                                                       *)
(***************************************************************************)
MaxFiles == 2         \* files in the directory
MaxRuns == 2          \* calls of process_all_files
MaxPreAttached == 1   \* attachments the portal shows before the first run

EXT_JPG  == <<".", "j", "p", "g">>
EXT_JPEG == <<".", "j", "p", "e", "g">>
EXT_PNG  == <<".", "p", "n", "g">>
EXT_GIF  == <<".", "g", "i", "f">>
EXT_WEBP == <<".", "w", "e", "b", "p">>

FILE_LEGACY_GTO == <<"a", "n", "a", "_", "b", " ", "-", " ", "1", "0", "-", "1", "0", "-", "2", "0", "2", "5", " ", "-", " ", "G", "T", "O", ".", "j", "p", "g">>
FILE_LEGACY_RX  == <<"a", "n", "a", "_", "b", " ", "-", " ", "1", "0", "-", "1", "0", "-", "2", "0", "2", "5", " ", "-", " ", "R", "X", ".", "j", "p", "e", "g">>
FILE_BAD_TYPE   == <<"a", "n", "a", "_", "b", " ", "-", " ", "1", "0", "-", "1", "0", "-", "2", "0", "2", "5", " ", "-", " ", "X", "X", ".", "p", "n", "g">>
FILE_TWO_PARTS  == <<"a", "n", "a", "_", "b", " ", "-", " ", "G", "T", "O", ".", "j", "p", "g">>
FILE_FOUR_PARTS == <<"A", "N", "A", "_", "B", " ", "-", " ", "1", "2", "3", "-", "4", " ", "-", " ", "1", "0", "1", "0", "2", "0", "2", "5", " ", "-", " ", "6", "5", ",", "0", "0", ".", "j", "p", "g">>
FILE_NOT_IMAGE  == <<"n", "o", "t", "a", "s", ".", "t", "x", "t">>

NOME_ANA == <<"A", "N", "A", " ", "B">>
SENHA_1  == <<"1", "2", "3", "-", "4">>
DATA_1   == <<"1", "0", "/", "1", "0", "/", "2", "0", "2", "5">>
DATA_2   == <<"1", "1", "/", "1", "0", "/", "2", "0", "2", "5">>
VALOR_1  == <<"6", "5", ",", "0", "0">>
ROW_NOME == <<"A", "n", "a", " ", "B">>

\* the file handle_confirmation writes for a complete, valid extraction
FILE_FROM_BOT ==
    ConfirmFileName([nome |-> NOME_ANA, senha |-> SENHA_1, data |-> DATA_1, valor |-> VALOR_1],
                    EXT_JPG)

CandidateFiles ==
    {FILE_LEGACY_GTO, FILE_LEGACY_RX, FILE_BAD_TYPE, FILE_TWO_PARTS, FILE_FOUR_PARTS,
     FILE_NOT_IMAGE, FILE_FROM_BOT}

\* the listing of the portal: column 4 (name) and column 3 (date) of each row
LEDGER ==
    <<[nome |-> ROW_NOME, data |-> DATA_1],
      [nome |-> ROW_NOME, data |-> DATA_2]>>

Slots == {GTO, RX}

(***************************************************************************)
(* process_fotos.py: one file                                              *)
(***************************************************************************)
\* the XPath search of find_and_click_user in a listing given as rows:
\* find_element returns the first row, in document order, whose name link
\* equals nome and whose date cell equals data; 0 when it raises
\* NoSuchElementException
FindRowIn(rows, nome, data) ==
    LET hits == {r \in DOMAIN rows : rows[r].nome = nome /\ rows[r].data = data}
    IN IF hits = {} THEN 0 ELSE CHOOSE r \in hits : \A q \in hits : r <= q

\* the search in the listing of the portal
FindRow(nome, data) == FindRowIn(LEDGER, nome, data)

MAX_SCROLL_ATTEMPTS == 20

\* the portal: rows a lazily loaded listing adds on one scroll to the bottom
SCROLL_CHUNK == 1

\* scrollHeight after one more scroll to the bottom, counted in rows: the
\* listing of total rows shows SCROLL_CHUNK more of them, if it has more
HeightAfterScroll(total, height) == Min(total, height + SCROLL_CHUNK)

\* the while loop of scroll_table_to_load_all
RECURSIVE ScrollLoop(_, _, _)
ScrollLoop(total, last_height, scroll_attempts) ==
    IF scroll_attempts < MAX_SCROLL_ATTEMPTS
       THEN IF HeightAfterScroll(total, last_height) = last_height
               THEN [height |-> last_height, attempts |-> scroll_attempts]
               ELSE ScrollLoop(total, HeightAfterScroll(total, last_height), scroll_attempts + 1)
       ELSE [height |-> last_height, attempts |-> scroll_attempts]

\* scroll_table_to_load_all for a listing of total rows of which height are
\* in the page; with env = "scroll_error" the table is not found, the
\* exception is caught and nothing is scrolled
scroll_table_to_load_all(total, height, env) ==
    IF env = "scroll_error"
       THEN [height |-> height, attempts |-> 0]
       ELSE ScrollLoop(total, height, 0)

\* find_and_click_user(nome, data) on the listing rows of which shown are in
\* the page: the rows in the page after the scroll are searched; row is the
\* row clicked, 0 when the function returns False
find_and_click_user(rows, shown, nome, data, env) ==
    LET after == scroll_table_to_load_all(Len(rows), shown, env)
    IN [attempts |-> after.attempts,
        shown    |-> after.height,
        row      |-> FindRowIn(SubSeq(rows, 1, after.height), nome, data)]

\* What the browser and the portal do during one process_file call:
\*   nav_error       return_to_search_page / prepare_search_filters / search_guides raises
\*   click_error     the row link cannot be clicked
\*   button_error    an attachment button is missing
\*   iframe_timeout  the upload iframe does not appear
\*   no_controle     the URL has no "controle=" parameter
\*   no_cookie       the PHPSESSID cookie is missing
\*   post_error      requests.post raises (timeout, connection)
\*   status_error    the response status is not 200
\*   complete_error  the follow-up form cannot be submitted
\*   ok_took         every step works and the portal registers the attachment
\*   ok_lost         every step works but the portal does not register it
EnvOutcomes ==
    {"nav_error", "click_error", "button_error", "iframe_timeout", "no_controle",
     "no_cookie", "post_error", "status_error", "complete_error", "ok_took", "ok_lost"}

\* parse_filename of every file name of the model: whether it raises, and
\* what it returns when it does not
UndecodableFiles == {f \in CandidateFiles : ParseRaises(f)}
DecodedFiles == {[file |-> f, dec |-> parse_filename(f)] : f \in CandidateFiles \ UndecodableFiles}
DecodeFails(f) == f \in UndecodableFiles
Decoded(f) == (CHOOSE e \in DecodedFiles : e.file = f).dec

\* find_and_click_user for the decoded name p
RowOfDecoded(p) == FindRow(p.nome, p.data)

\* the row process_file looks for; 0 when there is none or the name does not decode
RowOf(file_name) ==
    IF DecodeFails(file_name) THEN 0 ELSE RowOfDecoded(Decoded(file_name))

\* the two attachment buttons of the guide page
BUTTON_RX  == "AnexarRx1"
BUTTON_GTO == "AnexarRx2"
NO_BUTTON  == "ValueError"

\* a button choice that takes every type but RX for GTO
click_any_button(anexo) == IF anexo = RX THEN BUTTON_RX ELSE BUTTON_GTO

\* click_anexo_button: the button clicked for the type, NO_BUTTON when it
\* raises ValueError
click_anexo_button(anexo) ==
    IF anexo = GTO THEN BUTTON_GTO
    ELSE IF anexo = RX THEN BUTTON_RX
    ELSE NO_BUTTON

\* the step at which process_file ends once parse_filename returned p
StageAfterDecode(p, env) ==
    IF env = "nav_error" THEN "nav"
    ELSE IF RowOfDecoded(p) = 0 \/ env = "click_error" THEN "notfound"
    ELSE IF env = "button_error" \/ click_anexo_button(p.anexo) = NO_BUTTON THEN "anexo"
    ELSE IF env = "iframe_timeout" THEN "navupload"
    ELSE IF env \in {"no_controle", "no_cookie"} THEN "upload_nopost"
    ELSE IF env \in {"post_error", "status_error"} THEN "upload_post"
    ELSE IF env = "complete_error" THEN "complete"
    ELSE "ok"

\* the step of process_file at which the call ends
StageOf(file_name, env) ==
    IF DecodeFails(file_name) THEN "decode"
    ELSE StageAfterDecode(Decoded(file_name), env)

\* the stages that end with an exception raised inside the try block (the
\* others end with "return False" or "return True")
EndsInException(stage, env) ==
    stage \in {"decode", "nav", "anexo", "navupload"} \/ (stage = "upload_post" /\ env = "post_error")

\* stages at which requests.post has been called
PostCalled(stage) == stage \in {"upload_post", "complete", "ok"}

\* stages at which an attachment button has been clicked
ButtonClicked(stage) ==
    stage \in {"navupload", "upload_nopost", "upload_post", "complete", "ok"}

\* stages at which the browser has been driven
BrowserUsed(stage) == stage # "decode"

\* what a call that ended at stage gives its caller: True after
\* complete_upload, False after a step that returned False, onException
\* after a step that raised; row is the row that was clicked, if any
CallEnds(stage, row, env, onException) ==
    [stage  |-> stage,
     result |-> IF stage = "ok" THEN "True"
                ELSE IF EndsInException(stage, env) THEN onException
                ELSE "False",
     row    |-> IF stage \in {"decode", "nav"} THEN 0 ELSE row]

\* process_file without its except clause: an exception leaves the call
process_file_no_except(file_name, env) ==
    CallEnds(StageOf(file_name, env), RowOf(file_name), env, "raise")

\* process_file: the except clause catches every Exception and returns False
process_file(file_name, env) ==
    CallEnds(StageOf(file_name, env), RowOf(file_name), env, "False")

(***************************************************************************)
(* process_fotos.py: process_all_files                                     *)
(***************************************************************************)
IMAGE_EXTENSIONS == {EXT_JPG, EXT_JPEG, EXT_PNG, EXT_GIF, EXT_WEBP}

\* f.suffix.lower() in image_extensions
CandidateImages == {f \in CandidateFiles : LowerStr(Suffix(f)) \in IMAGE_EXTENSIONS}

\* the files list: the files of the directory with an image extension
ImageFiles(dir) == dir \cap CandidateImages

\* the orders in which glob may return a set of files
Orders(S) ==
    {s \in [1..Cardinality(S) -> S] : \A a, b \in 1..Cardinality(S) : a # b => s[a] # s[b]}

\* a loop body that unlinks the file whatever the result
MailboxAfterUnlink(dir, file, result) == dir \ {file}

\* the directory after the loop body handled file with the given result: the
\* loop only counts, it removes nothing
MailboxAfter(dir, file, result) == dir

NoLast == [file |-> <<>>, stage |-> "none", row |-> 0, button |-> "none"]

BatchInit ==
    /\ mailbox \in {S \in SUBSET CandidateFiles : Cardinality(S) <= MaxFiles}
    /\ attachments \in {a \in [DOMAIN LEDGER -> SUBSET Slots] :
                           Cardinality({<<r, sl>> \in (DOMAIN LEDGER) \X Slots : sl \in a[r]}) <= MaxPreAttached}
    /\ pc = "idle"
    /\ files = <<>>
    /\ i = 0
    /\ successful = 0
    /\ failed = 0
    /\ runs = 0
    /\ endKind = "none"
    /\ attempts = [f \in mailbox |-> 0]
    /\ okFiles = {}
    /\ everOk = {}
    /\ uploadCalls = [f \in mailbox |-> 0]
    /\ last = NoLast

\* process_all_files up to setup_driver; returns at once when no image is found
StartRun ==
    /\ pc = "idle"
    /\ runs < MaxRuns
    /\ runs' = runs + 1
    /\ \E order \in Orders(ImageFiles(mailbox)) :
          /\ files' = order
          /\ IF order = <<>>
                THEN pc' = "idle" /\ endKind' = "empty"
                ELSE pc' = "login" /\ endKind' = "running"
    /\ i' = 0
    /\ successful' = 0
    /\ failed' = 0
    /\ attempts' = [f \in mailbox |-> 0]
    /\ okFiles' = {}
    /\ last' = NoLast
    /\ UNCHANGED <<mailbox, attachments, everOk, uploadCalls, codecVars, sanVars, curVars, valVars, botVars, matchVars, extVars>>

\* a run that goes on after a failed step
GoesOn(ok, next) == next

\* where process_all_files is after a step of its try block: at the next
\* step, or at its end when the step raised
AfterStep(ok, next) == IF ok THEN next ELSE "idle"

\* self.login(): an exception is fatal to the run
Login ==
    /\ pc = "login"
    /\ \E ok \in BOOLEAN :
          /\ pc' = AfterStep(ok, "navigate")
          /\ endKind' = IF ok THEN endKind ELSE "fatal"
    /\ UNCHANGED <<mailbox, attachments, files, i, successful, failed, runs,
                   attempts, okFiles, everOk, uploadCalls, last, codecVars, sanVars, curVars, valVars, botVars, matchVars, extVars>>

\* self.navigate_to_lote_generation(), then the counters are set up
Navigate ==
    /\ pc = "navigate"
    /\ \E ok \in BOOLEAN :
          /\ pc' = AfterStep(ok, "loop")
          /\ i' = IF ok THEN 1 ELSE i
          /\ endKind' = IF ok THEN endKind ELSE "fatal"
    /\ successful' = 0
    /\ failed' = 0
    /\ UNCHANGED <<mailbox, attachments, files, runs, attempts, okFiles, everOk,
                   uploadCalls, last, codecVars, sanVars, curVars, valVars, botVars, matchVars, extVars>>

\* one iteration of the for loop: process_file(files[i]) and the counters
ProcessNext ==
    /\ pc = "loop"
    /\ i <= Len(files)
    /\ \E env \in EnvOutcomes, f \in {files[i]} : \E r \in {process_file(f, env)} :
          /\ attempts' = [attempts EXCEPT ![f] = @ + 1]
          /\ uploadCalls' = [uploadCalls EXCEPT ![f] = IF PostCalled(r.stage) THEN @ + 1 ELSE @]
          /\ attachments' = IF r.stage = "ok" /\ env = "ok_took"
                               THEN [attachments EXCEPT ![r.row] = @ \cup {Decoded(f).anexo}]
                               ELSE attachments
          /\ last' = [file |-> f, stage |-> r.stage, row |-> r.row,
                       button |-> IF ButtonClicked(r.stage)
                                     THEN click_anexo_button(Decoded(f).anexo) ELSE "none"]
          /\ IF r.result = "raise"
                \* an exception leaving process_file ends the run in "Erro fatal"
                THEN /\ pc' = "idle"
                     /\ endKind' = "fatal"
                     /\ UNCHANGED <<mailbox, i, successful, failed, okFiles, everOk>>
                ELSE /\ successful' = IF r.result = "True" THEN successful + 1 ELSE successful
                     /\ failed' = IF r.result = "True" THEN failed ELSE failed + 1
                     /\ okFiles' = IF r.result = "True" THEN okFiles \cup {f} ELSE okFiles
                     /\ everOk' = IF r.result = "True" THEN everOk \cup {f} ELSE everOk
                     /\ mailbox' = MailboxAfter(mailbox, f, r.result)
                     /\ i' = i + 1
                     /\ UNCHANGED <<pc, endKind>>
    /\ UNCHANGED <<files, runs, codecVars, sanVars, curVars, valVars, botVars, matchVars, extVars>>

\* the summary after the loop
Summary ==
    /\ pc = "loop"
    /\ i > Len(files)
    /\ pc' = "idle"
    /\ endKind' = "summary"
    /\ UNCHANGED <<mailbox, attachments, files, i, successful, failed, runs,
                   attempts, okFiles, everOk, uploadCalls, last, codecVars, sanVars, curVars, valVars, botVars, matchVars, extVars>>

\* KeyboardInterrupt between two steps of the try block
Interrupt ==
    /\ pc \in {"login", "navigate", "loop"}
    /\ pc' = "idle"
    /\ endKind' = "interrupted"
    /\ UNCHANGED <<mailbox, attachments, files, i, successful, failed, runs,
                   attempts, okFiles, everOk, uploadCalls, last, codecVars, sanVars, curVars, valVars, botVars, matchVars, extVars>>

CodecOff == cstage = "off" /\ cinfo = <<>> /\ cext = <<>> /\ cfname = <<>> /\ cdec = <<>>
SanOff == sstage = "off" /\ sIn = <<>> /\ sOut1 = <<>> /\ sOut2 = <<>>
CurOff == pstage = "off" /\ pIn = <<>> /\ pOut = <<>>
ValOff == vstage = "off" /\ vinfo = <<>> /\ vres = <<>>
MatchOff == mstage = "off" /\ mRows = <<>> /\ mShown = 0 /\ mQuery = <<>> /\ mRes = <<>>
ExtOff == xstage = "off" /\ xAnswer = <<>> /\ xInfo = <<>>

\* user_data without the key "extracted_info"
NoInfo == [kind |-> "absent", nome |-> None, senha |-> None, data |-> None, valor |-> None]
NoReply == [to |-> "none", kind |-> "none", problems |-> <<>>]
NoEvent == [conv |-> "none", kind |-> "none", from |-> "none", env |-> "none", data |-> "none"]
\* user_data without the key "temp_photo_path"
NoPath == [n |-> 0, ext |-> <<>>, owner |-> "none"]

BotOff ==
    /\ conv = "off"
    /\ pending_photo_file_id = FALSE
    /\ temp_photo_path = NoPath
    /\ extracted_info = NoInfo
    /\ tmpFiles = {}
    /\ downloads = {}
    /\ photos = 0
    /\ reply = NoReply
    /\ lastEvent = NoEvent

BatchNext ==
    \/ StartRun
    \/ Login
    \/ Navigate
    \/ ProcessNext
    \/ Summary
    \/ Interrupt

InitBatch == BatchInit /\ CodecOff /\ SanOff /\ CurOff /\ ValOff /\ BotOff /\ MatchOff /\ ExtOff

SpecBatch == InitBatch /\ [][BatchNext]_vars

(***************************************************************************)
(* The file name written on confirm, read back by parse_filename           *)
(***************************************************************************)
NOME_LOWER   == <<"a", "n", "a">>
NOME_SPECIAL == <<"J", "o", "@", "o", " ", " ", "b">>
SENHA_2      == <<"A", "B", "/", "7">>
VALOR_2      == <<"1", "5", "0", "0", ",", "5", "0">>
VALOR_3      == <<"a", "b", "c">>

CodecNomes   == {NOME_ANA, NOME_LOWER, NOME_SPECIAL, None}
CodecSenhas  == {SENHA_1, SENHA_2, None}
CodecDatas   == {DATA_1, DATA_2, None}
CodecValores == {VALOR_1, VALOR_2, VALOR_3, None}
\* the suffixes handle_photo gives the temporary file
PhotoExts    == {EXT_JPG, EXT_JPEG, EXT_PNG, EXT_WEBP}

NotDecoded == [ok |-> FALSE, nome |-> <<>>, data |-> <<>>, anexo |-> <<>>]

CodecInit ==
    /\ cstage = "input"
    /\ cinfo \in [nome : CodecNomes, senha : CodecSenhas, data : CodecDatas, valor : CodecValores]
    /\ cext \in PhotoExts
    /\ cfname = <<>>
    /\ cdec = NotDecoded

BatchOff ==
    /\ mailbox = {}
    /\ attachments = [r \in DOMAIN LEDGER |-> {}]
    /\ pc = "off"
    /\ files = <<>>
    /\ i = 0
    /\ successful = 0
    /\ failed = 0
    /\ runs = 0
    /\ endKind = "none"
    /\ attempts = [f \in {} |-> 0]
    /\ okFiles = {}
    /\ everOk = {}
    /\ uploadCalls = [f \in {} |-> 0]
    /\ last = NoLast

\* handle_confirmation builds fname from the extracted info
Encode ==
    /\ cstage = "input"
    /\ cfname' = ConfirmFileName(cinfo, cext)
    /\ cstage' = "encoded"
    /\ UNCHANGED <<cinfo, cext, cdec, batchVars, sanVars, curVars, valVars, botVars, matchVars, extVars>>

\* process_file calls parse_filename on that name
Decode ==
    /\ cstage = "encoded"
    /\ cdec' = IF ParseRaises(cfname) THEN NotDecoded
               ELSE LET p == parse_filename(cfname)
                    IN [ok |-> TRUE, nome |-> p.nome, data |-> p.data, anexo |-> p.anexo]
    /\ cstage' = "decoded"
    /\ UNCHANGED <<cinfo, cext, cfname, batchVars, sanVars, curVars, valVars, botVars, matchVars, extVars>>

CodecNext ==
    \/ Encode
    \/ Decode

InitCodec == CodecInit /\ BatchOff /\ SanOff /\ CurOff /\ ValOff /\ BotOff /\ MatchOff /\ ExtOff

SpecCodec == InitCodec /\ [][CodecNext]_vars

(***************************************************************************)
(* sanitize_filename_component applied once and twice                      *)
(***************************************************************************)
MaxAffix == 2   \* free characters before and after the padding
MaxOver == 1    \* how far the padding alone exceeds MAX_COMPONENT_LEN

SanAlphabet == {"a", " ", "\t", "@", "_"}
PadChars == {"a", " "}
PadLens == {0} \cup ((MAX_COMPONENT_LEN - 2)..(MAX_COMPONENT_LEN + MaxOver))
Affixes == UNION {[1..n -> SanAlphabet] : n \in 0..MaxAffix}

RECURSIVE Rep(_, _)
Rep(c, n) == IF n = 0 THEN <<>> ELSE <<c>> \o Rep(c, n - 1)

SanInit ==
    /\ sstage = "input"
    /\ \E h \in Affixes, t \in Affixes, c \in PadChars, n \in PadLens :
          sIn = h \o Rep(c, n) \o t
    /\ sOut1 = <<>>
    /\ sOut2 = <<>>

SanitizeOnce ==
    /\ sstage = "input"
    /\ sOut1' = sanitize_filename_component(sIn)
    /\ sstage' = "once"
    /\ UNCHANGED <<sIn, sOut2, batchVars, codecVars, curVars, valVars, botVars, matchVars, extVars>>

SanitizeTwice ==
    /\ sstage = "once"
    /\ sOut2' = sanitize_filename_component(sOut1)
    /\ sstage' = "twice"
    /\ UNCHANGED <<sIn, sOut1, batchVars, codecVars, curVars, valVars, botVars, matchVars, extVars>>

SanNext ==
    \/ SanitizeOnce
    \/ SanitizeTwice

InitSanitize == SanInit /\ BatchOff /\ CodecOff /\ CurOff /\ ValOff /\ BotOff /\ MatchOff /\ ExtOff

SpecSanitize == InitSanitize /\ [][SanNext]_vars

(***************************************************************************)
(* Properties of the batch run (SpecBatch)                                 *)
(***************************************************************************)
\* the listing shows, for the row and slot of file f, an attachment
RowShowsAttached(f) ==
    /\ ~DecodeFails(f)
    /\ FindRow(Decoded(f).nome, Decoded(f).data) # 0
    /\ Decoded(f).anexo \in attachments[FindRow(Decoded(f).nome, Decoded(f).data)]

\* this step is the process_file call for file f
ProcessStepOf(f) ==
    /\ pc = "loop"
    /\ i <= Len(files)
    /\ files[i] = f
    /\ attempts'[f] = attempts[f] + 1

RunEnded == pc = "idle" /\ endKind \in {"summary", "fatal", "interrupted"}

\* C1: over repeated runs, a file that an earlier run processed successfully
\* is never uploaded again.
C1_NoUploadAfterSuccess ==
    [][\A f \in DOMAIN uploadCalls : f \in everOk => uploadCalls'[f] = uploadCalls[f]]_vars

\* C2: processing a file whose row already shows the attachment makes no
\* upload call and succeeds.
C2_AttachedRowIsSkipped ==
    [][\A f \in DOMAIN uploadCalls :
          (ProcessStepOf(f) /\ RowShowsAttached(f) /\ last'.row # 0)
              => (uploadCalls'[f] = uploadCalls[f] /\ f \in okFiles')]_vars

\* C3: a file for which process_file returned success is counted as
\* succeeded and is no longer in the directory.
C3_SucceededFileIsDeleted ==
    /\ successful = Cardinality(okFiles)
    /\ \A f \in okFiles : f \notin mailbox

\* C4: every file of the run that has not been processed successfully
\* (failed at some step, not reached yet, or cut off by an interrupt) is
\* still in the directory.
C4_UnverifiedFileStays ==
    \A k \in DOMAIN files : files[k] \notin okFiles => files[k] \in mailbox

\* C4 witness: a run has ended in which a file failed after the browser was
\* driven for it, and the file is still there.
C4_Witness ==
    /\ RunEnded
    /\ last.stage \in {"notfound", "anexo", "upload_post", "complete"}
    /\ last.file \notin okFiles
    /\ last.file \in mailbox

\* C5: when a run that got past login and navigation ends by itself (summary
\* or fatal error), every file of the list has been processed exactly once.
C5_EveryFileProcessedOnce ==
    (pc = "idle" /\ endKind \in {"summary", "fatal"} /\ i >= 1)
        => /\ \A k \in DOMAIN files : attempts[files[k]] = 1
           /\ \A f \in DOMAIN attempts : attempts[f] > 0 => \E k \in DOMAIN files : files[k] = f

\* C5 witness: a run of two files ended with its summary; the first file
\* failed with an exception (undecodable name), the second was processed.
C5_Witness ==
    /\ pc = "idle"
    /\ endKind = "summary"
    /\ Len(files) = 2
    /\ files[1] = FILE_TWO_PARTS
    /\ attempts[FILE_TWO_PARTS] = 1
    /\ last.file = files[2]
    /\ last.stage = "ok"

\* C6: a file counted as succeeded has a row that shows the attachment.
C6_SucceededImpliesAttached ==
    \A f \in okFiles : RowShowsAttached(f)

\* number of parts the file name written on confirm has
PARTS_ON_CONFIRM == 5

\* C9: a file name with fewer than five parts ends in a decode failure,
\* without any browser action or upload call.
C9_ShortNameFailsDecode ==
    (last.stage # "none" /\ Len(Split(last.file, SEP)) < PARTS_ON_CONFIRM)
        => (last.stage = "decode" /\ ~BrowserUsed(last.stage) /\ ~PostCalled(last.stage))

(***************************************************************************)
(* Properties of the file name (SpecCodec)                                 *)
(***************************************************************************)
\* DD/MM/YYYY
IsDateText(d) ==
    /\ d # None
    /\ Len(d) = 10
    /\ \A k \in {1, 2, 4, 5, 7, 8, 9, 10} : IsDigit(d[k])
    /\ d[3] = "/"
    /\ d[6] = "/"

\* every field was extracted and the date has the expected form
CompleteInfo(info) ==
    /\ info.nome # None
    /\ info.senha # None
    /\ info.valor # None
    /\ IsDateText(info.data)

\* C7: decoding the file name written on confirm gives back the name (up to
\* sanitization and letter case), the date and the document type.
C7_RoundTrip ==
    (cstage = "decoded" /\ CompleteInfo(cinfo))
        => /\ cdec.ok
           /\ LowerStr(sanitize_filename_component(cdec.nome))
                  = LowerStr(sanitize_filename_component(cinfo.nome))
           /\ cdec.data = cinfo.data
           /\ cdec.anexo = GTO

\* C8: the file name written on confirm is name, access code, date, amount,
\* document type joined by " - ", the date being DD-MM-YYYY.
C8_KeyLayout ==
    (cstage \in {"encoded", "decoded"} /\ CompleteInfo(cinfo))
        => cfname = Join(<<sanitize_filename_component(cinfo.nome),
                           sanitize_filename_component(cinfo.senha),
                           Replace(cinfo.data, <<"/">>, <<"-">>),
                           parse_currency(cinfo.valor),
                           GTO \o cext>>, SEP)

(***************************************************************************)
(* Properties of sanitization (SpecSanitize)                               *)
(***************************************************************************)
\* C10: sanitizing a sanitized string changes nothing.
C10_SanitizeIdempotent ==
    sstage = "twice" => sOut2 = sOut1

\* C10 witness: an input longer than the limit whose first character is
\* removed and leaves leading whitespace behind; it was cut to the limit.
C10_Witness ==
    /\ sstage = "twice"
    /\ Len(sIn) > MAX_COMPONENT_LEN
    /\ sIn[1] = "@"
    /\ sIn[2] = " "
    /\ Len(sOut1) = MAX_COMPONENT_LEN
    /\ sOut1[1] = "_"

(***************************************************************************)
(* parse_currency applied to amount texts (SpecCurrency)                   *)
(***************************************************************************)
MaxCurLen == 4   \* length of the generated amount texts

\* digits without 5: no generated text is a rounding tie of the format .2f
CurDigits == {"0", "1", "9"}
CurAlphabet == CurDigits \cup {",", ".", "a"}

AMOUNT_65_00     == <<"6", "5", ".", "0", "0">>
AMOUNT_1500_50   == <<"1", "5", "0", "0", ",", "5", "0">>
AMOUNT_1_500_50  == <<"1", ".", "5", "0", "0", ".", "5", "0">>
AMOUNT_ABC       == <<"a", "b", "c">>
AMOUNT_US        == <<"1", ",", "2", "3", "4", ".", "5", "0">>
AMOUNT_BR        == <<"1", ".", "2", "3", "4", ",", "5", "0">>
AMOUNT_RS        == <<"R", "$", " ", "6", "5", ",", "0", "0">>

NamedAmounts ==
    {AMOUNT_65_00, AMOUNT_1500_50, AMOUNT_1_500_50, AMOUNT_ABC, AMOUNT_US, AMOUNT_BR, AMOUNT_RS}

AmountTexts == NamedAmounts \cup UNION {[1..n -> CurAlphabet] : n \in 0..MaxCurLen}

InitCurrency ==
    /\ pstage = "input"
    /\ pIn \in AmountTexts
    /\ pOut = <<>>
    /\ BatchOff /\ CodecOff /\ SanOff /\ ValOff /\ BotOff /\ MatchOff /\ ExtOff

\* preco_fmt = parse_currency(preco_raw)
ParseCurrency ==
    /\ pstage = "input"
    /\ pOut' = parse_currency(pIn)
    /\ pstage' = "done"
    /\ UNCHANGED <<pIn, batchVars, codecVars, sanVars, valVars, botVars, matchVars, extVars>>

CurrencyNext == ParseCurrency

SpecCurrency == InitCurrency /\ [][CurrencyNext]_vars
(***************************************************************************)
(* Properties of parse_currency (SpecCurrency)                             *)
(***************************************************************************)
\* position of the last occurrence of character c in s, 0 when there is none
RECURSIVE LastIndexOf(_, _, _)
LastIndexOf(s, c, k) == IF k = 0 THEN 0 ELSE IF s[k] = c THEN k ELSE LastIndexOf(s, c, k - 1)

\* the digits, commas and dots of the text
AmountChars(t) == SelectSeq(Strip(t), CurrencyChar)

\* the text holds a comma and a dot
HasBothSeparators(t) == Contains(AmountChars(t), <<",">>) /\ Contains(AmountChars(t), <<".">>)

\* the amount read with the right-most separator as the decimal point and the
\* other separator stripped
RightMostReading(t) ==
    LET c == AmountChars(t)
    IN IF LastIndexOf(c, ".", Len(c)) > LastIndexOf(c, ",", Len(c))
          THEN Replace(c, <<",">>, <<>>)
          ELSE Replace(Replace(c, <<".">>, <<>>), <<",">>, <<".">>)

\* an amount in the Brazilian notation with the value of the plain decimal d
BrazilianOf(d) ==
    Replace(Replace(Replace(FormatUS(CentsOf(d)), <<",">>, TEMP), <<".">>, <<",">>), TEMP, <<".">>)

AMOUNT_1_234_50 == <<"1", ".", "2", "3", "4", ",", "5", "0">>

\* C11: when the text holds a comma and a dot, the right-most of the two is
\* the decimal point and the other is stripped; "1,234.50" and "1.234,50"
\* both give "1.234,50".
C11_RightMostSeparatorIsDecimal ==
    (pstage = "done" /\ HasBothSeparators(pIn))
        => /\ IsFloatLiteral(RightMostReading(pIn)) => pOut = BrazilianOf(RightMostReading(pIn))
           /\ pIn \in {AMOUNT_US, AMOUNT_BR} => pOut = AMOUNT_1_234_50
AMOUNT_OUT_65_00    == <<"6", "5", ",", "0", "0">>
AMOUNT_OUT_1_500_50 == <<"1", ".", "5", "0", "0", ",", "5", "0">>

\* groups of digits: the first of one to three digits, the others of three
ThousandsGroups(g) ==
    /\ Len(g) >= 1
    /\ Len(g[1]) \in 1..3
    /\ \A k \in DOMAIN g : AllDigits(g[k]) /\ (k > 1 => Len(g[k]) = 3)

\* digits grouped by dots, a comma, two digits
IsBrazilianAmount(t) ==
    LET halves == Split(t, <<",">>)
    IN /\ Len(halves) = 2
       /\ Len(halves[2]) = 2
       /\ AllDigits(halves[2])
       /\ ThousandsGroups(Split(halves[1], <<".">>))

\* C12: "65.00" gives "65,00", "1500,50" gives "1.500,50", "1.500.50" gives
\* "1.500,50", "abc" gives "0,00"; every result has exactly two decimal
\* digits, a comma as decimal point and dots between the thousands.
C12_CurrencyExamplesAndFormat ==
    pstage = "done"
        => /\ pIn = AMOUNT_65_00 => pOut = AMOUNT_OUT_65_00
           /\ pIn = AMOUNT_1500_50 => pOut = AMOUNT_OUT_1_500_50
           /\ pIn = AMOUNT_1_500_50 => pOut = AMOUNT_OUT_1_500_50
           /\ pIn = AMOUNT_ABC => pOut = ZeroAmount
           /\ IsBrazilianAmount(pOut)

\* the part of C12 that does not depend on the third example
C12_AllButDottedExample ==
    (pstage = "done" /\ pIn # AMOUNT_1_500_50)
        => /\ pIn = AMOUNT_65_00 => pOut = AMOUNT_OUT_65_00
           /\ pIn = AMOUNT_1500_50 => pOut = AMOUNT_OUT_1_500_50
           /\ pIn = AMOUNT_ABC => pOut = ZeroAmount
           /\ IsBrazilianAmount(pOut)
(***************************************************************************)
(* validate_extracted_data applied to extraction results (SpecValidate)    *)
(***************************************************************************)
NOME_SHORT    == <<"a", "b">>
NOME_BLANK    == <<" ", " ">>
DATA_FEB_31   == <<"3", "1", "/", "0", "2", "/", "2", "0", "2", "4">>
DATA_LONG     == <<"1", "0", "/", "1", "0", "/", "2", "0", "2", "5", "5">>
DATA_SHORT    == <<"1", "/", "1", "/", "2", "0", "2", "5">>
DATA_PADDED   == <<" ", "1", "0", "/", "1", "0", "/", "2", "0", "2", "5", " ">>

\* what the dictionary returned by extract_guia_info may hold under each key:
\* a text, None (lines 281-284), or nothing when the answer lacks the key
ValNomes   == {NOME_ANA, NOME_SHORT, NOME_BLANK, NULL_TEXT, None, Missing}
ValSenhas  == {SENHA_1, NULL_TEXT, None, Missing}
ValDatas   == {DATA_1, DATA_FEB_31, DATA_LONG, DATA_SHORT, DATA_PADDED, None, Missing}
ValValores == {VALOR_1, NULL_TEXT, None, Missing}

NotValidated == [raised |-> FALSE, ok |-> FALSE, problems |-> <<>>]

InitValidate ==
    /\ vstage = "input"
    /\ vinfo \in [nome : ValNomes, senha : ValSenhas, data : ValDatas, valor : ValValores]
    /\ vres = NotValidated
    /\ BatchOff /\ CodecOff /\ SanOff /\ CurOff /\ BotOff /\ MatchOff /\ ExtOff

\* is_valid, problems = validate_extracted_data(info)
Validate ==
    /\ vstage = "input"
    /\ vres' = validate_extracted_data(vinfo)
    /\ vstage' = "done"
    /\ UNCHANGED <<vinfo, batchVars, codecVars, sanVars, curVars, botVars, matchVars, extVars>>

ValidateNext == Validate

SpecValidate == InitValidate /\ [][ValidateNext]_vars

(***************************************************************************)
(* Properties of the validator (SpecValidate)                              *)
(***************************************************************************)
\* the field is null or absent
Absent(value) == value \in {None, Missing}

\* the text of a field, empty when the field is null or absent
TextOf(value) == IF Absent(value) THEN <<>> ELSE Strip(value)

\* one problem for each violated rule, in the order name, access code, date,
\* amount
ExpectedProblems(info) ==
    ProblemsOf(TextOf(info.nome), TextOf(info.senha), TextOf(info.data), TextOf(info.valor))

\* C13: for every extraction result, also with null fields, the validator
\* returns one problem per violated rule in field order, ok exactly when
\* there is no problem, and never fails.
C13_ValidatorTotal ==
    vstage = "done"
        => /\ ~vres.raised
           /\ vres.problems = ExpectedProblems(vinfo)
           /\ vres.ok = (vres.problems = <<>>)

\* what holds of C13 once no field is null
C13_TotalWithoutNull ==
    (vstage = "done" /\ None \notin {vinfo.nome, vinfo.senha, vinfo.data, vinfo.valor})
        => /\ ~vres.raised
           /\ vres.problems = ExpectedProblems(vinfo)
           /\ vres.ok = (vres.problems = <<>>)

TwoDigits(t, k) == 10 * DigitVal(t[k]) + DigitVal(t[k + 1])
YearOf(t) == 100 * TwoDigits(t, 7) + TwoDigits(t, 9)
IsLeapYear(y) == (y % 4 = 0 /\ y % 100 # 0) \/ y % 400 = 0
DaysInMonth(mo, y) ==
    IF mo = 2 THEN (IF IsLeapYear(y) THEN 29 ELSE 28)
    ELSE IF mo \in {4, 6, 9, 11} THEN 30 ELSE 31

\* DD/MM/YYYY exactly, naming a day of the calendar
IsRealDate(t) ==
    /\ IsDateText(t)
    /\ TwoDigits(t, 4) \in 1..12
    /\ TwoDigits(t, 1) \in 1..DaysInMonth(TwoDigits(t, 4), YearOf(t))

\* C14: with the other three fields present, a missing date or a date that is
\* not exactly DD/MM/YYYY or not a real calendar date (31/02/2024) gives
\* ok = false with the date problem; a well-formed record gives ok = true and
\* no problem.
C14_DateMustBeRealDate ==
    (vstage = "done" /\ ~Absent(vinfo.nome) /\ ~Absent(vinfo.senha) /\ ~Absent(vinfo.valor))
        => IF ~Absent(vinfo.data) /\ IsRealDate(Strip(vinfo.data))
              THEN ExpectedProblems(vinfo) = <<>> => (~vres.raised /\ vres.ok /\ vres.problems = <<>>)
              ELSE ~vres.raised /\ ~vres.ok
                   /\ \E k \in DOMAIN vres.problems : vres.problems[k] = PROBLEM_DATA
(***************************************************************************)
(* bot.py: the conversations (SpecBot)                                     *)
(***************************************************************************)
MaxPhotos == 2   \* photos sent to the bot, over all conversations

\* ConversationHandler keeps one state per (chat, user) pair (per_chat and
\* per_user are left at their defaults), while context.user_data is one dict
\* per user: the model has the conversations of one user in two chats, which
\* share the user_data variables.
CHAT_PRIVATE == "private"
CHAT_GROUP   == "group"

Conversations == {CHAT_PRIVATE, CHAT_GROUP}

\* the suffixes of the photos sent in the model
BotExts == {EXT_JPG, EXT_PNG}

\* callback data: the two buttons of the keyboard, and any other data
CallbackData == {"CONFIRM", "RETRY", "OTHER"}

ParsedInfo(nome, senha, data, valor) ==
    [kind |-> "parsed", nome |-> nome, senha |-> senha, data |-> data, valor |-> valor]

INFO_OK          == ParsedInfo(NOME_ANA, SENHA_1, DATA_1, VALOR_1)
INFO_SHORT_NAME  == ParsedInfo(NOME_SHORT, SENHA_1, DATA_1, VALOR_1)
INFO_FEB_31      == ParsedInfo(NOME_ANA, SENHA_1, DATA_FEB_31, VALOR_1)
INFO_NO_DATE_KEY == ParsedInfo(NOME_ANA, SENHA_1, Missing, VALOR_1)
INFO_NULL_DATE   == ParsedInfo(NOME_ANA, SENHA_1, None, VALOR_1)
INFO_ALL_NULL    == ParsedInfo(None, None, None, None)
\* {"erro": ...}: the answer was no JSON, or the API call raised
INFO_ERRO        == [kind |-> "erro", nome |-> Missing, senha |-> Missing, data |-> Missing, valor |-> Missing]

\* what extract_guia_info may return
ExtractOutcomes ==
    {INFO_OK, INFO_SHORT_NAME, INFO_FEB_31, INFO_NO_DATE_KEY, INFO_NULL_DATE, INFO_ALL_NULL, INFO_ERRO}

\* an unlink that removes nothing
KeepFile(dirFiles, path) == dirFiles

\* os.unlink(path), done when os.path.exists(path)
Unlink(dirFiles, path) == dirFiles \ {path}

\* a clear() that leaves the key in place
NotCleared(value, empty) == value

\* user_data.clear(): the key is absent afterwards
Cleared(value, empty) == empty

\* a move that does not reach the destination directory
MoveLost(dirFiles, artifact) == dirFiles

\* shutil.move(temp_path, dest): dest holds the image, replacing a file of
\* the same name
MoveTo(dirFiles, artifact) == {a \in dirFiles : a.name # artifact.name} \cup {artifact}

\* a test that takes every data but "CONFIRM" for a retry
IsNotConfirm(data) == data # "CONFIRM"

\* query.data == "RETRY"
IsRetry(data) == data = "RETRY"

Message(c, kind) == [to |-> c, kind |-> kind, problems |-> <<>>]

Event(c, kind, from, env, data) ==
    [conv |-> c, kind |-> kind, from |-> from, env |-> env, data |-> data]

InitBot ==
    /\ conv = [c \in Conversations |-> "END"]
    /\ pending_photo_file_id = FALSE
    /\ temp_photo_path = NoPath
    /\ extracted_info = NoInfo
    /\ tmpFiles = {}
    /\ downloads = {}
    /\ photos = 0
    /\ reply = NoReply
    /\ lastEvent = NoEvent
    /\ BatchOff /\ CodecOff /\ SanOff /\ CurOff /\ ValOff /\ MatchOff /\ ExtOff

\* "temp_path and os.path.exists(temp_path)"
TempExists == temp_photo_path # NoPath /\ temp_photo_path \in tmpFiles

\* "if temp_path and os.path.exists(temp_path): os.unlink(temp_path)"
UnlinkTemp ==
    IF TempExists THEN Unlink(tmpFiles, temp_photo_path) ELSE tmpFiles

\* context.user_data.clear()
ClearUserData ==
    /\ pending_photo_file_id' = Cleared(pending_photo_file_id, FALSE)
    /\ temp_photo_path' = Cleared(temp_photo_path, NoPath)
    /\ extracted_info' = Cleared(extracted_info, NoInfo)

\* /start: entry point, and re-entry from any state (allow_reentry=True)
Start ==
    \E c \in Conversations :
        /\ conv' = [conv EXCEPT ![c] = "WAITING_PHOTO"]
        /\ reply' = Message(c, "start")
        /\ lastEvent' = Event(c, "start", conv[c], "none", "none")
        /\ UNCHANGED <<pending_photo_file_id, temp_photo_path, extracted_info, tmpFiles,
                       downloads, photos>>
        /\ UNCHANGED <<batchVars, codecVars, sanVars, curVars, valVars, matchVars, extVars>>

\* /cancel: fallback of every state of a running conversation
Cancel ==
    \E c \in Conversations :
        /\ conv[c] \in {"WAITING_PHOTO", "WAITING_CONFIRMATION"}
        /\ tmpFiles' = UnlinkTemp
        /\ ClearUserData
        /\ conv' = [conv EXCEPT ![c] = "END"]
        /\ reply' = Message(c, "cancelled")
        /\ lastEvent' = Event(c, "cancel", conv[c], "none", "none")
        /\ UNCHANGED <<downloads, photos>>
        /\ UNCHANGED <<batchVars, codecVars, sanVars, curVars, valVars, matchVars, extVars>>

\* handle_text_when_waiting_photo
TextMessage ==
    \E c \in Conversations :
        /\ conv[c] = "WAITING_PHOTO"
        /\ reply' = Message(c, "send_photo")
        /\ lastEvent' = Event(c, "text", conv[c], "none", "none")
        /\ UNCHANGED <<conv, pending_photo_file_id, temp_photo_path, extracted_info, tmpFiles,
                       downloads, photos>>
        /\ UNCHANGED <<batchVars, codecVars, sanVars, curVars, valVars, matchVars, extVars>>

\* handle_photo.  got = NoInfo: get_file or the download raised before the
\* extraction; otherwise got is what extract_guia_info returned.  The new
\* temporary file has a fresh name; owner records the conversation it was
\* made for.
HandlePhoto ==
    \E c \in Conversations :
        /\ conv[c] = "WAITING_PHOTO"
        /\ photos < MaxPhotos
        /\ photos' = photos + 1
        /\ pending_photo_file_id' = TRUE
        /\ \E ext \in BotExts, got \in {NoInfo} \cup ExtractOutcomes :
           \E new \in {[n |-> photos + 1, ext |-> ext, owner |-> c]},
              v \in {validate_extracted_data(got)} :
              IF got = NoInfo
                 THEN \* except branch: the path left in user_data, if any, is unlinked
                      /\ tmpFiles' = UnlinkTemp
                      /\ UNCHANGED <<temp_photo_path, extracted_info>>
                      /\ conv' = [conv EXCEPT ![c] = "WAITING_PHOTO"]
                      /\ reply' = Message(c, "process_error")
                      /\ lastEvent' = Event(c, "photo", conv[c], "download_error", "none")
                 ELSE /\ temp_photo_path' = new
                      /\ extracted_info' = got
                      /\ IF got.kind = "erro"
                            THEN /\ tmpFiles' = Unlink(tmpFiles \cup {new}, new)
                                 /\ conv' = [conv EXCEPT ![c] = "WAITING_PHOTO"]
                                 /\ reply' = Message(c, "extract_error")
                                 /\ lastEvent' = Event(c, "photo", conv[c], "erro", "none")
                            ELSE IF v.raised
                            THEN \* except branch: temp_photo_path is in user_data by now
                                 /\ tmpFiles' = Unlink(tmpFiles \cup {new}, new)
                                 /\ conv' = [conv EXCEPT ![c] = "WAITING_PHOTO"]
                                 /\ reply' = Message(c, "process_error")
                                 /\ lastEvent' = Event(c, "photo", conv[c], "fields", "none")
                            ELSE /\ tmpFiles' = tmpFiles \cup {new}
                                 /\ conv' = [conv EXCEPT ![c] = "WAITING_CONFIRMATION"]
                                 /\ reply' = [to |-> c, kind |-> "confirm_prompt", problems |-> v.problems]
                                 /\ lastEvent' = Event(c, "photo", conv[c], "fields", "none")
        /\ UNCHANGED downloads
        /\ UNCHANGED <<batchVars, codecVars, sanVars, curVars, valVars, matchVars, extVars>>

\* handle_confirmation.  moved: whether shutil.move works; wanted: the type
\* of the photographed document, which no update carries to the handler
HandleConfirmation ==
    \E c \in Conversations :
        /\ conv[c] = "WAITING_CONFIRMATION"
        /\ \E data \in CallbackData :
              IF IsRetry(data)
                 THEN /\ tmpFiles' = UnlinkTemp
                      /\ ClearUserData
                      /\ reply' = Message(c, "send_new_photo")
                      /\ lastEvent' = Event(c, "callback", conv[c], "none", data)
                      /\ UNCHANGED downloads
                 ELSE IF ~TempExists
                 THEN /\ ClearUserData
                      /\ reply' = Message(c, "missing_data")
                      /\ lastEvent' = Event(c, "callback", conv[c], "no_temp", data)
                      /\ UNCHANGED <<tmpFiles, downloads>>
                 ELSE \E moved \in BOOLEAN :
                      IF moved
                      THEN /\ \E wanted \in Slots :
                                 downloads' = MoveTo(downloads,
                                                     [name   |-> ConfirmFileName(extracted_info, temp_photo_path.ext),
                                                      bytes  |-> temp_photo_path.n,
                                                      info   |-> extracted_info,
                                                      wanted |-> wanted])
                           /\ tmpFiles' = tmpFiles \ {temp_photo_path}
                           /\ ClearUserData
                           /\ reply' = Message(c, "saved")
                           /\ lastEvent' = Event(c, "callback", conv[c], "move_ok", data)
                      ELSE \* except branch: the temporary file is removed, user_data is kept
                           /\ tmpFiles' = Unlink(tmpFiles, temp_photo_path)
                           /\ reply' = Message(c, "save_failed")
                           /\ lastEvent' = Event(c, "callback", conv[c], "move_error", data)
                           /\ UNCHANGED <<pending_photo_file_id, temp_photo_path, extracted_info, downloads>>
        /\ conv' = [conv EXCEPT ![c] = "WAITING_PHOTO"]
        /\ UNCHANGED photos
        /\ UNCHANGED <<batchVars, codecVars, sanVars, curVars, valVars, matchVars, extVars>>

BotNext ==
    \/ Start
    \/ Cancel
    \/ TextMessage
    \/ HandlePhoto
    \/ HandleConfirmation

SpecBot == InitBot /\ [][BotNext]_vars
(***************************************************************************)
(* Properties of the conversations (SpecBot)                               *)
(***************************************************************************)
\* user_data is empty
UserDataEmpty ==
    /\ ~pending_photo_file_id
    /\ temp_photo_path = NoPath
    /\ extracted_info = NoInfo

\* this step handled a photo of conversation c for which the extraction
\* returned fields
PhotoWithFields(c) ==
    lastEvent'.conv = c /\ lastEvent'.kind = "photo" /\ lastEvent'.env = "fields"

\* this step handled the callback data d in conversation c, which was in
\* WAITING_CONFIRMATION
CallbackStep(c, d) ==
    /\ conv[c] = "WAITING_CONFIRMATION"
    /\ lastEvent'.conv = c
    /\ lastEvent'.kind = "callback"
    /\ lastEvent'.data = d

\* C15: a photo received in WAITING_PHOTO for which the extraction returned
\* fields, null ones included, always leads to WAITING_CONFIRMATION, and the
\* prompt shows the validation problems.
C15_PhotoLeadsToConfirmation ==
    [][\A c \in Conversations :
          PhotoWithFields(c)
             => /\ conv'[c] = "WAITING_CONFIRMATION"
                /\ reply'.to = c
                /\ reply'.kind = "confirm_prompt"
                /\ reply'.problems = ExpectedProblems(extracted_info')]_vars

\* what holds of C15 when no extracted field is None
C15_WithoutNullFields ==
    [][\A c \in Conversations :
          (PhotoWithFields(c)
              /\ None \notin {extracted_info'.nome, extracted_info'.senha,
                              extracted_info'.data, extracted_info'.valor})
             => /\ conv'[c] = "WAITING_CONFIRMATION"
                /\ reply'.to = c
                /\ reply'.kind = "confirm_prompt"
                /\ reply'.problems = ExpectedProblems(extracted_info')]_vars

\* the pending image is in DOWNLOAD_DIR after this step, under the name built
\* from the extracted fields
PersistedUnderKey ==
    \E a \in downloads' :
        /\ a.name = ConfirmFileName(extracted_info, temp_photo_path.ext)
        /\ a.bytes = temp_photo_path.n
        /\ temp_photo_path \notin tmpFiles'

TypeToken(name) ==
    LET parts == Split(name, SEP)
    IN Split(parts[Len(parts)], <<".">>)[1]

\* C17: the document type in the name of every persisted file is the type
\* the user chose for the document, one of the two types.
C17_TypeIsTheOneChosen ==
    \A a \in downloads : a.wanted \in Slots /\ TypeToken(a.name) = a.wanted

\* the four fields are present and each is valid: a name of at least three
\* characters after sanitization, a code, a real date, an amount
AllFieldsValid(info) ==
    /\ ~Absent(info.nome) /\ Len(sanitize_filename_component(info.nome)) >= MIN_NOME_LEN
    /\ ~Absent(info.senha) /\ sanitize_filename_component(info.senha) # <<>>
    /\ ~Absent(info.data) /\ IsRealDate(Strip(info.data))
    /\ ~Absent(info.valor) /\ Strip(info.valor) # <<>>

\* C18: every file in DOWNLOAD_DIR was persisted from a record whose four
\* fields were present and individually valid.
C18_OnlyValidRecordsPersisted ==
    \A a \in downloads : AllFieldsValid(a.info)

\* C19: a retry in WAITING_CONFIRMATION removes the temporary image, leaves
\* user_data empty, writes nothing to DOWNLOAD_DIR and returns to
\* WAITING_PHOTO.
C19_RetryDiscards ==
    [][\A c \in Conversations :
          CallbackStep(c, "RETRY")
             => /\ UserDataEmpty'
                /\ temp_photo_path \notin tmpFiles'
                /\ downloads' = downloads
                /\ conv'[c] = "WAITING_PHOTO"]_vars

\* C19 witness: a retry has been handled while a temporary image was pending
\* and a file was already saved; the image is gone, the saved file is kept.
C19_Witness ==
    /\ lastEvent.kind = "callback"
    /\ lastEvent.data = "RETRY"
    /\ conv[lastEvent.conv] = "WAITING_PHOTO"
    /\ UserDataEmpty
    /\ photos = 2
    /\ tmpFiles = {}
    /\ Cardinality(downloads) = 1

ErrorStep(c) ==
    /\ lastEvent'.conv = c
    /\ \/ lastEvent'.kind = "photo" /\ lastEvent'.env \in {"download_error", "erro"}
       \/ lastEvent'.kind = "photo" /\ lastEvent'.env = "fields"
             /\ validate_extracted_data(extracted_info').raised
       \/ lastEvent'.kind = "callback" /\ lastEvent'.env = "move_error"

\* the messages that report a failure
FailureReports == {"process_error", "extract_error", "save_failed"}

\* what conversation d was waiting with: its state, the extracted fields, the
\* pending image and its file on disk
SessionKept(d) ==
    /\ conv'[d] = conv[d]
    /\ conv[d] = "WAITING_CONFIRMATION"
          => /\ UNCHANGED <<pending_photo_file_id, temp_photo_path, extracted_info>>
             /\ temp_photo_path \in tmpFiles => temp_photo_path \in tmpFiles'

\* the error step returns to WAITING_PHOTO, reports the failure and writes
\* nothing to DOWNLOAD_DIR
ErrorHandledIn(c) ==
    /\ conv'[c] = "WAITING_PHOTO"
    /\ reply'.to = c
    /\ reply'.kind \in FailureReports
    /\ downloads' = downloads

\* C21: a conversation whose handler ends in an error path returns to
\* WAITING_PHOTO, reports the failure, writes nothing to DOWNLOAD_DIR and
\* leaves the state of every other conversation as it was.
C21_ErrorLeavesOthersAlone ==
    [][\A c \in Conversations :
          ErrorStep(c)
             => /\ ErrorHandledIn(c)
                /\ \A d \in Conversations \ {c} : SessionKept(d)]_vars

\* what holds of C21: the erring conversation itself is handled as stated,
\* and the state machine of the other conversation does not move
C21_ErrorHandledInOwnConversation ==
    [][\A c \in Conversations :
          ErrorStep(c)
             => /\ ErrorHandledIn(c)
                /\ \A d \in Conversations \ {c} : conv'[d] = conv[d]]_vars
\* this step saved the pending image of conversation c: shutil.move worked
SavedStep(c) ==
    /\ lastEvent'.conv = c
    /\ lastEvent'.kind = "callback"
    /\ lastEvent'.env = "move_ok"

\* C26: every successful confirm adds one new file to DOWNLOAD_DIR and
\* leaves every file that was already there in place, also when the
\* extracted fields are those of an earlier capture.
C26_ConfirmAddsNewFile ==
    [][\A c \in Conversations :
          SavedStep(c)
             => /\ downloads \subseteq downloads'
                /\ Cardinality(downloads') = Cardinality(downloads) + 1]_vars

\* what holds of C26: a successful confirm leaves the files with other names
\* in place and puts the session's image under its name
C26_OtherNamesStay ==
    [][\A c \in Conversations :
          SavedStep(c)
             => /\ PersistedUnderKey
                /\ \A a \in downloads :
                      a.name # ConfirmFileName(extracted_info, temp_photo_path.ext)
                         => a \in downloads']_vars

\* the temporary images made for conversation c that are on disk
TempFilesOf(c) == {t \in tmpFiles : t.owner = c}

\* C29: a conversation that rests in WAITING_PHOTO holds no extracted fields
\* and no pending image: user_data is empty and none of its temporary images
\* is on disk.
C29_RestingSessionIsEmpty ==
    \A c \in Conversations :
        conv[c] = "WAITING_PHOTO" => UserDataEmpty /\ TempFilesOf(c) = {}

C23_NotFoundIsNotFailed ==
    [][\A f \in DOMAIN attempts :
          (ProcessStepOf(f) /\ last'.stage = "notfound" /\ RowOf(f) = 0)
             => failed' = failed]_vars

\* what holds of C23: the summary has two counters, which add up to the
\* number of files of the run
C23_TwoCountersAddUp ==
    (pc = "idle" /\ endKind = "summary") => successful + failed = Len(files)

\* this step is a call of process_file
ProcessStep == \E f \in DOMAIN attempts : attempts'[f] > attempts[f]

\* nothing has been done for any file in this run
NoFileTouched ==
    /\ \A f \in DOMAIN attempts : attempts[f] = 0
    /\ okFiles = {}

\* C24: a run that finds a file logs in once, at its start and before any
\* file is processed; when the login or the navigation to the batch page
\* fails the run ends there with the fatal report, and no file has been
\* looked up, uploaded or removed.
C24_LoginOnceBeforeFiles ==
    [][/\ (pc = "idle" /\ runs' # runs /\ files' # <<>>) => pc' = "login"
       /\ (pc' = "login" /\ pc # "login") => (pc = "idle" /\ runs' = runs + 1)
       /\ (pc' = "navigate" /\ pc # "navigate") => pc = "login"
       /\ (pc' = "loop" /\ pc # "loop") => (pc = "navigate" /\ NoFileTouched)
       /\ ProcessStep => pc = "loop"
       /\ (pc \in {"login", "navigate"} /\ endKind' = "fatal")
             => /\ pc' = "idle"
                /\ NoFileTouched'
                /\ UNCHANGED <<mailbox, attachments, uploadCalls>>]_vars

\* C24 witness: the second run found a file and ended with the fatal report
\* before its loop; no file was processed in it.
C24_Witness ==
    /\ runs = 2
    /\ pc = "idle"
    /\ endKind = "fatal"
    /\ i = 0
    /\ files # <<>>
    /\ NoFileTouched
    /\ mailbox # {}

\* the button of the slot of a document type
ButtonOf(anexo) == IF anexo = GTO THEN BUTTON_GTO ELSE BUTTON_RX

\* C27: requests.post is called for a file only after a row was found and
\* clicked for it and the button of its document type was clicked; a file
\* without a row, or with a type that is neither GTO nor RX, is not
\* uploaded.
C27_UploadAfterRowAndSlot ==
    [][\A f \in DOMAIN uploadCalls :
          ProcessStepOf(f)
             => /\ uploadCalls'[f] > uploadCalls[f]
                     => /\ ~DecodeFails(f)
                        /\ RowOf(f) # 0
                        /\ last'.row = RowOf(f)
                        /\ Decoded(f).anexo \in Slots
                        /\ last'.button = ButtonOf(Decoded(f).anexo)
                /\ (DecodeFails(f) \/ RowOf(f) = 0 \/ Decoded(f).anexo \notin Slots)
                     => uploadCalls'[f] = uploadCalls[f]]_vars

\* C27 witness: in one run the file of unknown type was not uploaded, and
\* the RX file was uploaded after its row and the RX button were clicked.
C27_Witness ==
    /\ FILE_BAD_TYPE \in DOMAIN uploadCalls
    /\ attempts[FILE_BAD_TYPE] = 1
    /\ uploadCalls[FILE_BAD_TYPE] = 0
    /\ last.file = FILE_LEGACY_RX
    /\ last.stage = "ok"
    /\ last.row # 0
    /\ last.button = BUTTON_RX
    /\ uploadCalls[FILE_LEGACY_RX] = 1
(***************************************************************************)
(* process_fotos.py: the row search (SpecMatch)                            *)
(***************************************************************************)
MaxRows == 22   \* rows of the longest listing

NOME_ROW_UPPER == <<"A", "N", "A", " ", "B">>
NOME_ROW_OTHER == <<"B", "i", "a", " ", "C">>
VALOR_ROW_2    == <<"8", "0", ",", "0", "0">>

MatchNomes   == {ROW_NOME, NOME_ROW_UPPER, NOME_ROW_OTHER}
MatchDatas   == {DATA_1, DATA_2}
MatchValores == {VALOR_1, VALOR_ROW_2}

\* a row of the listing: the name link, the date cell and the amount cell
ListingRows == [nome : MatchNomes, data : MatchDatas, valor : MatchValores]

\* a row no record of the model matches
FILLER_ROW == [nome |-> NOME_ROW_OTHER, data |-> DATA_2, valor |-> VALOR_ROW_2]

\* the record of the file being processed: parse_filename gives the name in
\* title case; the date and the amount are those of the capture
MatchQueries == [nome : {ROW_NOME}, data : MatchDatas, valor : MatchValores]

\* the record looked for in the long listings, and the row that has its
\* name, date and amount
LONG_QUERY  == [nome |-> ROW_NOME, data |-> DATA_1, valor |-> VALOR_1]
TARGET_ROW  == LONG_QUERY

\* a listing of n rows with TARGET_ROW at position k (nowhere when k = 0)
LongListing(n, k) == [r \in 1..n |-> IF r = k THEN TARGET_ROW ELSE FILLER_ROW]

SearchEnvs == {"ok", "scroll_error"}

\* either a short listing that is all in the page, with any record, or a
\* long listing of which one row is in the page before the first scroll
InitMatch ==
    /\ mstage = "input"
    /\ \/ /\ mRows \in UNION {[1..n -> ListingRows] : n \in 1..2}
          /\ mShown = Len(mRows)
          /\ mQuery \in MatchQueries
       \/ /\ \E n \in 1..MaxRows, k \in 0..MaxRows : k <= n /\ mRows = LongListing(n, k)
          /\ mShown = 1
          /\ mQuery = LONG_QUERY
    /\ mRes = <<>>
    /\ BatchOff /\ CodecOff /\ SanOff /\ CurOff /\ ValOff /\ BotOff /\ ExtOff

\* process_file, lines 455-458: the call of find_and_click_user
FindAndClickUser ==
    /\ mstage = "input"
    /\ \E env \in SearchEnvs :
          mRes' = find_and_click_user(mRows, mShown, mQuery.nome, mQuery.data, env)
    /\ mstage' = "done"
    /\ UNCHANGED <<mRows, mShown, mQuery, batchVars, codecVars, sanVars, curVars, valVars,
                   botVars, extVars>>

MatchNext == FindAndClickUser

SpecMatch == InitMatch /\ [][MatchNext]_vars

(***************************************************************************)
(* Properties of the row search (SpecMatch)                                *)
(***************************************************************************)
\* the name compared without regard to case
FoldCase(t) == LowerStr(t)

\* the match rule: same name, and same date or same amount
RuleMatches(row, rec) ==
    /\ FoldCase(row.nome) = FoldCase(rec.nome)
    /\ row.data = rec.data \/ row.valor = rec.valor

\* the first row of rows the predicate holds of, 0 when there is none
FirstRow(rows, Holds(_)) ==
    LET hits == {r \in DOMAIN rows : Holds(rows[r])}
    IN IF hits = {} THEN 0 ELSE CHOOSE r \in hits : \A q \in hits : r <= q

\* the row the rule selects for rec: a row matched by date if there is one,
\* else a row matched by amount
RuleRow(rows, rec) ==
    LET ByDate(row) == RuleMatches(row, rec) /\ row.data = rec.data
        ByRule(row) == RuleMatches(row, rec)
    IN IF FirstRow(rows, ByDate) # 0 THEN FirstRow(rows, ByDate) ELSE FirstRow(rows, ByRule)

\* C22: with the whole listing in the page, the search selects a row exactly
\* when a row has the record's name (case ignored) and its date or its
\* amount, and it is the row the rule prefers; a row with the name and the
\* amount but another date is selected.
C22_MatchRule ==
    (mstage = "done" /\ mShown = Len(mRows)) => mRes.row = RuleRow(mRows, mQuery)

\* what holds of C22: the row the search selects has exactly the record's
\* name and date, so it is a row the rule allows
C22_SelectedRowIsAllowed ==
    (mstage = "done" /\ mRes.row # 0)
        => /\ mRows[mRes.row].nome = mQuery.nome
           /\ mRows[mRes.row].data = mQuery.data
           /\ RuleMatches(mRows[mRes.row], mQuery)

\* C28: the scroll ends, and after it the whole listing is in the page, so
\* that a row with the name and date looked for is found wherever it is in
\* the listing.
C28_ScrollLoadsEveryRow ==
    (mstage = "done" /\ mRes.attempts > 0)
        => /\ mRes.shown = Len(mRows)
           /\ mRes.row = FindRowIn(mRows, mQuery.nome, mQuery.data)

\* what holds of C28: the loop ends after at most MAX_SCROLL_ATTEMPTS
\* scrolls, and a row among the first MAX_SCROLL_ATTEMPTS + 1 is found
C28_ScrollIsBounded ==
    mstage = "done"
        => /\ mRes.attempts <= MAX_SCROLL_ATTEMPTS
           /\ mRes.attempts > 0 => mRes.shown = Min(Len(mRows), mShown + MAX_SCROLL_ATTEMPTS * SCROLL_CHUNK)
           /\ (mRes.attempts > 0 /\ FindRowIn(mRows, mQuery.nome, mQuery.data) \in 1..mRes.shown)
                 => mRes.row = FindRowIn(mRows, mQuery.nome, mQuery.data)
(***************************************************************************)
(* bot.py: extract_guia_info (SpecExtract)                                 *)
(***************************************************************************)
EXTRACT_KEYS == {"senha", "nome", "data", "valor"}

TEXT_EMPTY     == <<>>
TEXT_NULL      == <<"n", "u", "l", "l">>
TEXT_NA        == <<"N", "/", "A">>
TEXT_NULL_CAPS == <<"N", "U", "L", "L">>
TEXT_SPACE     == <<" ">>
TEXT_VALUE     == <<"6", "5">>

\* the list [None, "null", "N/A", ""] of line 283
NULL_MARKERS == {None, TEXT_NULL, TEXT_NA, TEXT_EMPTY}

\* what a key of the answer's JSON object can hold; Missing: no such key
AnswerValues ==
    {TEXT_VALUE, TEXT_EMPTY, TEXT_NULL, TEXT_NA, TEXT_NULL_CAPS, TEXT_SPACE, None, Missing}

\* the answers of the API: the image cannot be read, the request raises,
\* the text is no JSON, the JSON is a number or an array, or it is an object;
\* fenced: the text is wrapped in a markdown code block
AnswerKinds == {"read_error", "api_error", "not_json", "json_number", "json_array", "json_object"}

Answer(kind, fenced, senha, nome, data, valor) ==
    [kind |-> kind, fenced |-> fenced,
     senha |-> senha, nome |-> nome, data |-> data, valor |-> valor]

Answers ==
    {Answer(kind, FALSE, Missing, Missing, Missing, Missing) : kind \in AnswerKinds \ {"json_object"}}
    \cup {Answer("json_object", fenced, senha, nome, data, valor) :
             fenced \in BOOLEAN, senha \in AnswerValues, nome \in AnswerValues,
             data \in AnswerValues, valor \in AnswerValues}

KeepValue(value) == value

\* lines 283-284 for one key
NormalizeValue(value) ==
    IF value # Missing /\ value \in NULL_MARKERS THEN None ELSE value

\* extract_guia_info: the result for an answer of the API. The code block
\* markers are removed before json.loads, so a fenced answer parses as the
\* bare one; a JSON number raises TypeError at "key in parsed"; a JSON array
\* has none of the keys and is returned as it is
extract_guia_info(answer) ==
    IF answer.kind \in {"read_error", "api_error", "not_json", "json_number"}
       THEN INFO_ERRO
       ELSE IF answer.kind = "json_array"
               THEN ParsedInfo(Missing, Missing, Missing, Missing)
               ELSE ParsedInfo(NormalizeValue(answer.nome), NormalizeValue(answer.senha),
                               NormalizeValue(answer.data), NormalizeValue(answer.valor))

InitExtract ==
    /\ xstage = "input"
    /\ xAnswer \in Answers
    /\ xInfo = <<>>
    /\ BatchOff /\ CodecOff /\ SanOff /\ CurOff /\ ValOff /\ BotOff /\ MatchOff

ExtractGuiaInfo ==
    /\ xstage = "input"
    /\ xInfo' = extract_guia_info(xAnswer)
    /\ xstage' = "done"
    /\ UNCHANGED <<xAnswer, batchVars, codecVars, sanVars, curVars, valVars, botVars, matchVars>>

ExtractNext == ExtractGuiaInfo

SpecExtract == InitExtract /\ [][ExtractNext]_vars

(***************************************************************************)
(* Properties of extract_guia_info (SpecExtract)                           *)
(***************************************************************************)
SentinelTexts == {TEXT_EMPTY, TEXT_NULL, TEXT_NA}

\* C25: a result of extract_guia_info that is no error has none of the
\* strings "", "null" and "N/A" in senha, nome, data or valor: each of the
\* four keys that held one of them in the answer holds None in the result.
C25_SentinelsBecomeNone ==
    (xstage = "done" /\ xInfo.kind # "erro")
        => \A key \in EXTRACT_KEYS :
              /\ xInfo[key] \notin SentinelTexts
              /\ xAnswer[key] \in SentinelTexts => xInfo[key] = None

C25_Witness ==
    /\ xstage = "done"
    /\ xInfo.kind # "erro"
    /\ xAnswer.senha = TEXT_EMPTY /\ xInfo.senha = None
    /\ xAnswer.nome = TEXT_NULL /\ xInfo.nome = None
    /\ xAnswer.data = TEXT_NA /\ xInfo.data = None
    /\ xAnswer.valor = TEXT_VALUE /\ xInfo.valor = TEXT_VALUE
=============================================================================
